---- MODULE Spec2Model ----
(***************************************************************************)
(* Panel detection and reading order (YOLO/ordered_detection.py).          *)
(*                                                                         *)
(* A box is the tuple <<x1, y1, x2, y2>> (Python's [x1, y1, x2, y2]);      *)
(* a list of boxes is a sequence.  The detector's boxes are floats, so     *)
(* box coordinates are counted in half pixels throughout (the edge 3 is    *)
(* pixel 1.5); gutter positions, image sizes and the results of int() are  *)
(* whole pixels.  Comparisons against the float literals 0.3, 0.5, 0.9     *)
(* and 2.0 are written as the equivalent integer inequalities              *)
(* (a > b * 0.3 as 10a > 3b), which agree with the float computation on    *)
(* every coordinate the model draws.                                       *)
(***************************************************************************)
EXTENDS Integers, Sequences, FiniteSets, TLC

VARIABLES
    \* merge_overlapping_boxes and its callers
    mPc, mIn, mOut, mOut2, mPerm, mOutP,
    \* merge_overlapping_boxes step by step: its local list, merges so far
    mBoxes, mMerges,
    \* build_panel_dag: position, argument, locals, returned order
    dPc, dBoxes, same_row, adj, in_degree, queue, topo_order, dOrder,
    \* detect_gutters_and_refine_boxes: position, arguments, locals, result
    gPc, gBoxes, gShape, vertical_gutters, horizontal_gutters, gOut, gRet,
    \* main: position, alarm, locals, the result file, exit status
    pc, alarm, raw_boxes, cleaned_boxes, panel_order, ordered_boxes,
    final_output_boxes, ink_found, img, refined_boxes, file, exitStatus, raisedIn

mergeVars == <<mPc, mIn, mOut, mOut2, mPerm, mOutP, mBoxes, mMerges>>
dagVars == <<dPc, dBoxes, same_row, adj, in_degree, queue, topo_order, dOrder>>
gutterVars == <<gPc, gBoxes, gShape, vertical_gutters, horizontal_gutters, gOut, gRet>>
mainVars == <<pc, alarm, raw_boxes, cleaned_boxes, panel_order, ordered_boxes,
              final_output_boxes, ink_found, img, refined_boxes, file, exitStatus,
              raisedIn>>
vars == <<mergeVars, dagVars, gutterVars, mainVars>>

notMerge == <<dagVars, gutterVars, mainVars>>
notDag == <<mergeVars, gutterVars, mainVars>>
notGutter == <<mergeVars, dagVars, mainVars>>
notMain == <<mergeVars, dagVars, gutterVars>>

----------------------------------------------------------------------------
(* Bounds of the model *)

\* boxes of the merge model lie on the grid 0..MergeMaxX by 0..MergeMaxY
MergeMaxX == 2
MergeMaxY == 3
\* longest list given to merge_overlapping_boxes
MergeMaxBoxes == 3
\* the containment model draws pairs on 0..PairMaxX by 0..PairMaxY
PairMaxX == 10
PairMaxY == 2
\* build_panel_dag is given at most DagMaxBoxes boxes whose coordinates are
\* multiples of GridUnit pixels up to DagMaxX * GridUnit, DagMaxY * GridUnit
\* (bands of the fallback sort are 50 pixels high)
DagMaxX == 2
DagMaxY == 4
DagMaxBoxes == 3
GridUnit == 20
\* the wide inputs of build_panel_dag add boxes on 0..DagWideMaxX by
\* 0..DagWideMaxY grid units, on which boxes of one row can nest
DagWideMaxX == 4
DagWideMaxY == 2
\* detect_gutters_and_refine_boxes is given at most GutMaxBoxes boxes with
\* edges between 0 and GutMaxX, GutMaxY half pixels; each line detection
\* returns at most GutMaxLines segments, at pixels up to GutLineMaxX,
\* GutLineMaxY
GutMaxX == 4
GutMaxY == 2
GutMaxBoxes == 2
GutMaxLines == 2
GutLineMaxX == 3
GutLineMaxY == 2
\* main: the detector returns at most MainMaxBoxes boxes with edges between
\* 0 and MainMaxX, MainMaxY half pixels
MainMaxX == 4
MainMaxY == 2
MainMaxBoxes == 2
\* size of the image of the gutter model: the proximity window width // 15
\* is 3 pixels, height // 15 is 2 pixels
ImgHeight == 30
ImgWidth == 45

----------------------------------------------------------------------------
(* Helpers *)

\* a whole-pixel quantity in half pixels
Half(g) == 2 * g

\* int(c) of a coordinate c >= 0 given in half pixels, in whole pixels
Trunc(c) == c \div 2

\* reading_order.json before it is written
NoFile == [written |-> FALSE, reading_order |-> <<>>]

Min(a, b) == IF a < b THEN a ELSE b
Max(a, b) == IF a > b THEN a ELSE b

Range(s) == {s[k] : k \in 1..Len(s)}

\* boxes with x1 < x2 and y1 < y2 on the grid 0..mx by 0..my
ValidBoxes(mx, my) ==
    {b \in (0..mx) \X (0..my) \X (0..mx) \X (0..my) : b[1] < b[3] /\ b[2] < b[4]}

\* all lists of at most n elements of S
ListsUpTo(S, n) == UNION {[1..k -> S] : k \in 0..n}

PermuteIdentity(s, p) == s

\* the list s rearranged by the permutation p of its positions
Permute(s, p) == [k \in 1..Len(s) |-> s[p[k]]]

Area(b) == (b[3] - b[1]) * (b[4] - b[2])

----------------------------------------------------------------------------
(* merge_boxes, check_containment, merge_overlapping_boxes *)

merge_boxes_first_x1(box1, box2) ==
    <<box1[1], Min(box1[2], box2[2]),
      Max(box1[3], box2[3]), Max(box1[4], box2[4])>>

merge_boxes_intersection(box1, box2) ==
    <<Min(box1[1], box2[1]), Min(box1[2], box2[2]),
      Min(box1[3], box2[3]), Min(box1[4], box2[4])>>

merge_boxes(box1, box2) ==
    <<Min(box1[1], box2[1]), Min(box1[2], box2[2]),
      Max(box1[3], box2[3]), Max(box1[4], box2[4])>>

\* intersection / area >= 0.9 for either box; FALSE when the boxes do not
\* intersect (the division is then never reached)
check_containment(box1, box2) ==
    LET x1 == Max(box1[1], box2[1])
        y1 == Max(box1[2], box2[2])
        x2 == Min(box1[3], box2[3])
        y2 == Min(box1[4], box2[4])
        intersection == (x2 - x1) * (y2 - y1)
    IN  IF x2 <= x1 \/ y2 <= y1
        THEN FALSE
        ELSE \/ 10 * intersection >= 9 * Area(box1)
             \/ 10 * intersection >= 9 * Area(box2)

\* 50% Y overlap of the shorter box (lines 310-312)
MergeSameRow(box1, box2) ==
    LET y_overlap == Min(box1[4], box2[4]) - Max(box1[2], box2[2])
        min_height == Min(box1[4] - box1[2], box2[4] - box2[2])
    IN  2 * y_overlap > min_height

\* what the body of the inner loop does with the pair (box1, box2):
\* "merge", "skip", or "raise" (ZeroDivisionError of overlap_area / min(area1, area2))
PairOutcome(box1, box2) ==
    IF check_containment(box1, box2) THEN "merge"
    ELSE IF MergeSameRow(box1, box2)
    THEN LET y_overlap == Min(box1[4], box2[4]) - Max(box1[2], box2[2])
             x_overlap == Max(0, Min(box1[3], box2[3]) - Max(box1[1], box2[1]))
             overlap_area == x_overlap * y_overlap
             min_area == Min(Area(box1), Area(box2))
         IN  IF min_area = 0 THEN "raise"
             ELSE IF 10 * overlap_area > 3 * min_area THEN "merge"
             ELSE "skip"
    ELSE "skip"

HitsContainmentOnly(boxes) ==
    {p \in (1..Len(boxes)) \X (1..Len(boxes)) :
        p[1] < p[2] /\ check_containment(boxes[p[1]], boxes[p[2]])}

\* pairs (i, j), i < j, at which one scan of the list does not just move on
Hits(boxes) ==
    {p \in (1..Len(boxes)) \X (1..Len(boxes)) :
        p[1] < p[2] /\ PairOutcome(boxes[p[1]], boxes[p[2]]) # "skip"}

\* the first of them in scan order: i ascending, then j ascending
FirstHit(boxes) ==
    CHOOSE p \in Hits(boxes) :
        \A q \in Hits(boxes) : p[1] < q[1] \/ (p[1] = q[1] /\ p[2] <= q[2])

MergeAtPopFirst(boxes, i, j) ==
    [k \in 1..(Len(boxes) - 1) |-> IF k < i THEN boxes[k] ELSE boxes[k + 1]]

MergeAtDropPair(boxes, i, j) ==
    LET rest == [k \in 1..(Len(boxes) - 1) |-> IF k < j THEN boxes[k] ELSE boxes[k + 1]]
    IN  [k \in 1..(Len(rest) - 1) |-> IF k < i THEN rest[k] ELSE rest[k + 1]]

MergeAtKeepFirst(boxes, i, j) ==
    [k \in 1..(Len(boxes) - 1) |-> IF k < j THEN boxes[k] ELSE boxes[k + 1]]

\* boxes[i] = merge_boxes(box1, box2); boxes.pop(j)
MergeAt(boxes, i, j) ==
    LET u == merge_boxes(boxes[i], boxes[j])
    IN  [k \in 1..(Len(boxes) - 1) |->
            IF k = i THEN u ELSE IF k < j THEN boxes[k] ELSE boxes[k + 1]]

\* the `while merged` loop: every pass that merges restarts the scan
RECURSIVE MergeLoop(_)
MergeLoopSinglePass(boxes) ==
    IF Hits(boxes) = {} THEN [raised |-> FALSE, boxes |-> boxes]
    ELSE LET p == FirstHit(boxes)
         IN  IF PairOutcome(boxes[p[1]], boxes[p[2]]) = "raise"
             THEN [raised |-> TRUE, boxes |-> boxes]
             ELSE [raised |-> FALSE, boxes |-> MergeAt(boxes, p[1], p[2])]

MergeLoop(boxes) ==
    IF Hits(boxes) = {} THEN [raised |-> FALSE, boxes |-> boxes]
    ELSE LET p == FirstHit(boxes)
         IN  IF PairOutcome(boxes[p[1]], boxes[p[2]]) = "raise"
             THEN [raised |-> TRUE, boxes |-> boxes]
             ELSE MergeLoop(MergeAt(boxes, p[1], p[2]))

MergeRun(boxes) ==
    IF Len(boxes) <= 1 THEN [raised |-> FALSE, boxes |-> boxes] ELSE MergeLoop(boxes)

merge_overlapping_boxes(boxes) == MergeRun(boxes).boxes

MergeRaises(boxes) == MergeRun(boxes).raised

----------------------------------------------------------------------------
(* build_panel_dag.  Python's indices 0..n-1 are the positions 1..n here. *)

Indices(n) == [k \in 1..n |-> k]

\* lexicographic order of the two-component sort keys
KeyLess(a, b) == a[1] < b[1] \/ (a[1] = b[1] /\ a[2] < b[2])

\* list.sort(key=...): ascending by key, equal keys keep their order
StableSort(seq, key) ==
    LET Before(q, p) ==
            \/ KeyLess(key[seq[q]], key[seq[p]])
            \/ (key[seq[q]] = key[seq[p]] /\ q < p)
        Rank(p) == Cardinality({q \in 1..Len(seq) : Before(q, p)})
    IN  [r \in 1..Len(seq) |-> seq[CHOOSE p \in 1..Len(seq) : Rank(p) = r - 1]]

DagSameRowHalf(box_i, box_j) ==
    LET y_overlap == Min(box_i[4], box_j[4]) - Max(box_i[2], box_j[2])
        min_height == Min(box_i[4] - box_i[2], box_j[4] - box_j[2])
    IN  2 * y_overlap > min_height

\* j in same_row[i]: y_overlap > min_height * 0.3 (lines 63-68)
DagSameRow(box_i, box_j) ==
    LET y_overlap == Min(box_i[4], box_j[4]) - Max(box_i[2], box_j[2])
        min_height == Min(box_i[4] - box_i[2], box_j[4] - box_j[2])
    IN  10 * y_overlap > 3 * min_height

BuildSameRowClosed(boxes) ==
    [i \in 1..Len(boxes) |->
        LET Linked(j) ==
                /\ j # i
                /\ \/ DagSameRow(boxes[i], boxes[j])
                   \/ \E k \in 1..Len(boxes) :
                        /\ k # i /\ k # j
                        /\ DagSameRow(boxes[i], boxes[k])
                        /\ DagSameRow(boxes[k], boxes[j])
        IN  SelectSeq(Indices(Len(boxes)), Linked)]

\* same_row after lines 57-68: same_row[i] lists, in ascending j, the j # i
\* that pass the test of line 67
BuildSameRow(boxes) ==
    [i \in 1..Len(boxes) |->
        LET InRow(j) == j # i /\ DagSameRow(boxes[i], boxes[j])
        IN  SelectSeq(Indices(Len(boxes)), InRow)]

CenterRightOfByEdges(box_i, box_j) == box_i[1] > box_j[3]

CenterRightOfOrLevel(box_i, box_j) == box_i[1] + box_i[3] >= box_j[1] + box_j[3]

\* centers[i][0] > centers[j][0], both sides doubled
CenterRightOf(box_i, box_j) == box_i[1] + box_i[3] > box_j[1] + box_j[3]

EdgeRuleBelowFirst(boxes, i, j) ==
    /\ i # j
    /\ IF ~DagSameRow(boxes[i], boxes[j]) /\ boxes[i][2] > boxes[j][4]
       THEN TRUE
       ELSE DagSameRow(boxes[i], boxes[j]) /\ CenterRightOf(boxes[i], boxes[j])

\* the body of the edge loop appends j to adj[i] (lines 73-87)
EdgeRule(boxes, i, j) ==
    /\ i # j
    /\ IF ~DagSameRow(boxes[i], boxes[j]) /\ boxes[i][4] < boxes[j][2]
       THEN TRUE
       ELSE DagSameRow(boxes[i], boxes[j]) /\ CenterRightOf(boxes[i], boxes[j])

\* adj after the edge loop: adj[i] lists its successors in ascending j
BuildAdj(boxes) ==
    [i \in 1..Len(boxes) |->
        LET IsSucc(j) == EdgeRule(boxes, i, j)
        IN  SelectSeq(Indices(Len(boxes)), IsSucc)]

\* in_degree after the edge loop: one increment per appended edge
BuildInDegree(boxes) ==
    [j \in 1..Len(boxes) |->
        Cardinality({i \in 1..Len(boxes) : EdgeRule(boxes, i, j)})]

\* queue = [i for i in range(n) if in_degree[i] == 0]
InitialQueue(boxes) ==
    LET deg == BuildInDegree(boxes)
        Ready(i) == deg[i] = 0
    IN  SelectSeq(Indices(Len(boxes)), Ready)

QueueKeyLeftFirst(boxes) == [i \in 1..Len(boxes) |-> <<boxes[i][2], boxes[i][1]>>]

\* key of the ready-queue sort: (y1, -x1)
QueueKey(boxes) == [i \in 1..Len(boxes) |-> <<boxes[i][2], -boxes[i][1]>>]

\* key of the fallback sort: (y1 // 50, -x1)
FallbackKey(boxes) ==
    [i \in 1..Len(boxes) |-> <<boxes[i][2] \div Half(50), -boxes[i][1]>>]

RECURSIVE RelaxEarly(_, _, _)
RelaxEarly(succ, deg, q) ==
    IF succ = <<>> THEN [in_degree |-> deg, queue |-> q]
    ELSE LET v == Head(succ)
             d == [deg EXCEPT ![v] = deg[v] - 1]
         IN  RelaxEarly(Tail(succ), d, IF d[v] >= 0 THEN Append(q, v) ELSE q)

\* for v in adj[u]: in_degree[v] -= 1; if in_degree[v] == 0: queue.append(v)
RECURSIVE Relax(_, _, _)
Relax(succ, deg, q) ==
    IF succ = <<>> THEN [in_degree |-> deg, queue |-> q]
    ELSE LET v == Head(succ)
             d == [deg EXCEPT ![v] = deg[v] - 1]
         IN  Relax(Tail(succ), d, IF d[v] = 0 THEN Append(q, v) ELSE q)

\* one iteration of `while queue` (lines 93-106)
KahnIteration(boxes, a, st) ==
    LET sorted == IF Len(st.queue) > 1
                  THEN StableSort(st.queue, QueueKey(boxes))
                  ELSE st.queue
        u == Head(sorted)
        r == Relax(a[u], st.in_degree, Tail(sorted))
    IN  [in_degree |-> r.in_degree, queue |-> r.queue,
         topo_order |-> Append(st.topo_order, u)]

RECURSIVE KahnLoop(_, _, _)
KahnLoop(boxes, a, st) ==
    IF st.queue = <<>> THEN st ELSE KahnLoop(boxes, a, KahnIteration(boxes, a, st))

\* lines 108-116: the topological order, or the spatial sort when it is short
ReturnedOrderPartial(boxes, order) == order

ReturnedOrderByY(boxes, order) ==
    IF Len(order) # Len(boxes)
    THEN StableSort(Indices(Len(boxes)), QueueKey(boxes))
    ELSE order

ReturnedOrder(boxes, order) ==
    IF Len(order) # Len(boxes)
    THEN StableSort(Indices(Len(boxes)), FallbackKey(boxes))
    ELSE order

\* the function as a whole: the returned (order, adj)
build_panel_dag(boxes) ==
    IF Len(boxes) <= 1
    THEN [order |-> Indices(Len(boxes)), adj |-> <<>>]
    ELSE LET a == BuildAdj(boxes)
             st == KahnLoop(boxes, a,
                       [in_degree |-> BuildInDegree(boxes),
                        queue |-> InitialQueue(boxes),
                        topo_order |-> <<>>])
         IN  [order |-> ReturnedOrder(boxes, st.topo_order), adj |-> a]

----------------------------------------------------------------------------
(* detect_gutters_and_refine_boxes *)

Last(seq) == seq[Len(seq)]

\* sorted(list(set(...))) of a set of integers
RECURSIVE SortedList(_)
SortedList(S) ==
    IF S = {} THEN <<>>
    ELSE LET m == CHOOSE x \in S : \A y \in S : x <= y
         IN  <<m>> \o SortedList(S \ {m})

Abs(a) == IF a >= 0 THEN a ELSE -a

\* lines 162-182 for one axis: of the detected segments keep those whose
\* two ends differ by less than 15, take int((a + b) / 2) of each, drop
\* duplicates and sort.  `lines` is the set of the detected segments (None
\* is the empty set); the order of detection is not read by the code.
ClusterGutters(lines) ==
    SortedList({(l[1] + l[2]) \div 2 : l \in {s \in lines : Abs(s[2] - s[1]) < 15}})

\* [g for g in gutters if g > edge and abs(g - edge) < window]
GuttersAfter(gutters, edge, window) ==
    LET Near(g) == Half(g) > edge /\ Abs(Half(g) - edge) < Half(window)
    IN  SelectSeq(gutters, Near)

\* [g for g in gutters if g < edge and abs(g - edge) < window]
GuttersBefore(gutters, edge, window) ==
    LET Near(g) == Half(g) < edge /\ Abs(Half(g) - edge) < Half(window)
    IN  SelectSeq(gutters, Near)

RECURSIVE RefineBox(_, _, _, _, _)
RefineBoxTruncating(box, vg, hg, height, width) ==
    <<Half(box[1] \div 2), Half(box[2] \div 2), Half(box[3] \div 2), Half(box[4] \div 2)>>

RefineBoxLeftAlways(box, vg, hg, height, width) ==
    LET left_gutters == GuttersBefore(vg, box[1], width \div 15)
        top_gutters == GuttersBefore(hg, box[2], height \div 15)
        right_gutters == GuttersAfter(vg, box[3], width \div 15)
        bottom_gutters == GuttersAfter(hg, box[4], height \div 15)
    IN  <<IF left_gutters # <<>>
          THEN Max(Half(Last(left_gutters) + 1), box[1]) ELSE box[1],
          IF top_gutters # <<>>
          THEN Max(Half(Last(top_gutters) + 1), box[2]) ELSE box[2],
          IF right_gutters # <<>>
          THEN Min(Half(Head(right_gutters) - 1), box[3]) ELSE box[3],
          IF bottom_gutters # <<>>
          THEN Min(Half(Head(bottom_gutters) - 1), box[4]) ELSE box[4]>>

RefineBoxSnap(box, vg, hg, height, width) ==
    LET is_horizontal_panel == (box[3] - box[1]) > 2 * (box[4] - box[2])
        left_gutters == GuttersBefore(vg, box[1], width \div 15)
        top_gutters == GuttersBefore(hg, box[2], height \div 15)
        right_gutters == GuttersAfter(vg, box[3], width \div 15)
        bottom_gutters == GuttersAfter(hg, box[4], height \div 15)
    IN  <<IF ~is_horizontal_panel /\ left_gutters # <<>>
          THEN Half(Last(left_gutters) + 1) ELSE box[1],
          IF top_gutters # <<>> THEN Half(Last(top_gutters) + 1) ELSE box[2],
          IF right_gutters # <<>> THEN Half(Head(right_gutters) - 1) ELSE box[3],
          IF bottom_gutters # <<>> THEN Half(Head(bottom_gutters) - 1) ELSE box[4]>>

\* lines 186-227 for one box of positive height
RefineBox(box, vg, hg, height, width) ==
    LET x1 == box[1]
        y1 == box[2]
        x2 == box[3]
        y2 == box[4]
        \* aspect_ratio > 2.0
        is_horizontal_panel == (x2 - x1) > 2 * (y2 - y1)
        right_gutters == GuttersAfter(vg, x2, width \div 15)
        left_gutters == GuttersBefore(vg, x1, width \div 15)
        top_gutters == GuttersBefore(hg, y1, height \div 15)
        bottom_gutters == GuttersAfter(hg, y2, height \div 15)
        r0 == IF ~is_horizontal_panel /\ left_gutters # <<>>
              THEN Max(Half(Last(left_gutters) + 1), x1) ELSE x1
        r1 == IF top_gutters # <<>>
              THEN Max(Half(Last(top_gutters) + 1), y1) ELSE y1
        r2 == IF right_gutters # <<>>
              THEN Min(Half(Head(right_gutters) - 1), x2) ELSE x2
        r3 == IF bottom_gutters # <<>>
              THEN Min(Half(Head(bottom_gutters) - 1), y2) ELSE y2
    IN  <<r0, r1, r2, r3>>

\* panel_width / panel_height raises ZeroDivisionError
RefineRaises(boxes) == \E k \in 1..Len(boxes) : boxes[k][4] - boxes[k][2] = 0

RefineAllPartial(boxes, vg, hg, height, width) ==
    [k \in 1..Len(boxes) |->
        IF \E l \in 1..k : boxes[l][4] - boxes[l][2] = 0
        THEN boxes[k]
        ELSE RefineBox(boxes[k], vg, hg, height, width)]

\* lines 185-234: the refined list, or the argument itself when a box raises
RefineAll(boxes, vg, hg, height, width) ==
    IF RefineRaises(boxes) THEN boxes
    ELSE [k \in 1..Len(boxes) |-> RefineBox(boxes[k], vg, hg, height, width)]

----------------------------------------------------------------------------
(* merge_overlapping_boxes applied to drawn inputs *)

MergeIdle ==
    /\ mOut = <<>> /\ mOut2 = <<>> /\ mPerm = <<>> /\ mOutP = <<>>
    /\ mBoxes = <<>> /\ mMerges = 0

MergeOff == mPc = "off" /\ mIn = <<>> /\ MergeIdle

DagIdle ==
    /\ same_row = <<>> /\ adj = <<>> /\ in_degree = <<>> /\ queue = <<>>
    /\ topo_order = <<>> /\ dOrder = <<>>

DagOff == dPc = "off" /\ dBoxes = <<>> /\ DagIdle

GutterIdle ==
    /\ gShape = <<0, 0>> /\ vertical_gutters = <<>> /\ horizontal_gutters = <<>>
    /\ gOut = <<>> /\ gRet = 0

GutterOff == gPc = "off" /\ gBoxes = <<>> /\ GutterIdle

MainIdle ==
    /\ raw_boxes = <<>> /\ cleaned_boxes = <<>> /\ panel_order = <<>>
    /\ ordered_boxes = <<>> /\ final_output_boxes = <<>> /\ ink_found = <<>>
    /\ img = "unread"
    /\ refined_boxes = <<>>
    /\ file = NoFile /\ exitStatus = "running" /\ raisedIn = "none"

MainOff == pc = "off" /\ alarm = "off" /\ MainIdle

MergeInit ==
    /\ mPc = "input"
    /\ mIn \in ListsUpTo(ValidBoxes(MergeMaxX, MergeMaxY), MergeMaxBoxes)
    /\ MergeIdle
    /\ DagOff
    /\ GutterOff
    /\ MainOff

PairInit ==
    /\ mPc = "input"
    /\ mIn \in [1..2 -> ValidBoxes(PairMaxX, PairMaxY)]
    /\ MergeIdle
    /\ DagOff
    /\ GutterOff
    /\ MainOff

\* cleaned_boxes = merge_overlapping_boxes(raw_boxes)
MergeCall ==
    /\ mPc = "input"
    /\ mOut' = merge_overlapping_boxes(mIn)
    /\ mPc' = "merged"
    /\ UNCHANGED <<mIn, mOut2, mPerm, mOutP, mBoxes, mMerges, notMerge>>

\* the function applied to its own output
MergeAgain ==
    /\ mPc = "merged"
    /\ mOut2' = merge_overlapping_boxes(mOut)
    /\ mPc' = "remerged"
    /\ UNCHANGED <<mIn, mOut, mPerm, mOutP, mBoxes, mMerges, notMerge>>

\* the function applied to a rearrangement of the same input
MergePermuted ==
    /\ mPc = "merged"
    /\ \E p \in Permutations(1..Len(mIn)) :
            /\ mPerm' = Permute(mIn, p)
            /\ mOutP' = merge_overlapping_boxes(Permute(mIn, p))
    /\ mPc' = "permuted"
    /\ UNCHANGED <<mIn, mOut, mOut2, mBoxes, mMerges, notMerge>>

MergeNext == MergeCall \/ MergeAgain \/ MergePermuted

MergeSpec == MergeInit /\ [][MergeNext]_vars

PairSpec == PairInit /\ [][MergeNext]_vars

----------------------------------------------------------------------------
(* merge_overlapping_boxes, pass by pass, on lists of valid boxes *)

MergeStepInit ==
    /\ mPc = "call"
    /\ mIn \in ListsUpTo(ValidBoxes(MergeMaxX, MergeMaxY), MergeMaxBoxes)
    /\ MergeIdle
    /\ DagOff
    /\ GutterOff
    /\ MainOff

\* lines 287-288: len(boxes) <= 1
MergeTrivial ==
    /\ mPc = "call"
    /\ Len(mIn) <= 1
    /\ mOut' = mIn
    /\ mPc' = "returned"
    /\ UNCHANGED <<mIn, mOut2, mPerm, mOutP, mBoxes, mMerges, notMerge>>

\* lines 290-291: boxes = boxes.copy()
MergeCopy ==
    /\ mPc = "call"
    /\ Len(mIn) > 1
    /\ mBoxes' = mIn
    /\ mPc' = "scan"
    /\ UNCHANGED <<mIn, mOut, mOut2, mPerm, mOutP, mMerges, notMerge>>

\* lines 293-335: a pass of `while merged` that finds a pair to merge,
\* merges it and breaks out of both scans (the division of line 324 does
\* not raise on boxes of positive area)
MergePass ==
    /\ mPc = "scan"
    /\ Hits(mBoxes) # {}
    /\ LET p == FirstHit(mBoxes)
       IN  /\ PairOutcome(mBoxes[p[1]], mBoxes[p[2]]) = "merge"
           /\ mBoxes' = MergeAt(mBoxes, p[1], p[2])
    /\ mMerges' = mMerges + 1
    /\ UNCHANGED <<mPc, mIn, mOut, mOut2, mPerm, mOutP, notMerge>>

\* lines 293-337: a pass that merges nothing ends the loop; return boxes
MergeReturn ==
    /\ mPc = "scan"
    /\ Hits(mBoxes) = {}
    /\ mOut' = mBoxes
    /\ mPc' = "returned"
    /\ UNCHANGED <<mIn, mOut2, mPerm, mOutP, mBoxes, mMerges, notMerge>>

MergeStepNext == MergeTrivial \/ MergeCopy \/ MergePass \/ MergeReturn

MergeStepSpec == MergeStepInit /\ [][MergeStepNext]_vars

\* the function keeps running until it returns
MergeStepFairSpec == MergeStepSpec /\ WF_vars(MergeStepNext)

----------------------------------------------------------------------------
(* build_panel_dag, step by step *)

Scaled(b) ==
    <<Half(b[1] * GridUnit), Half(b[2] * GridUnit),
      Half(b[3] * GridUnit), Half(b[4] * GridUnit)>>

DagBoxes == {Scaled(b) : b \in ValidBoxes(DagMaxX, DagMaxY)}

DagInit ==
    /\ dPc = "call"
    /\ dBoxes \in ListsUpTo(DagBoxes, DagMaxBoxes)
    /\ DagIdle
    /\ MergeOff
    /\ GutterOff
    /\ MainOff

\* lines 43-45: n <= 1
DagTrivial ==
    /\ dPc = "call"
    /\ Len(dBoxes) <= 1
    /\ dOrder' = Indices(Len(dBoxes))
    /\ dPc' = "done"
    /\ UNCHANGED <<dBoxes, same_row, adj, in_degree, queue, topo_order, notDag>>

\* lines 48-91: same-row lists, adjacency, in-degrees and the initial ready
\* queue
DagBuild ==
    /\ dPc = "call"
    /\ Len(dBoxes) > 1
    /\ same_row' = BuildSameRow(dBoxes)
    /\ adj' = BuildAdj(dBoxes)
    /\ in_degree' = BuildInDegree(dBoxes)
    /\ queue' = InitialQueue(dBoxes)
    /\ topo_order' = <<>>
    /\ dPc' = "kahn"
    /\ UNCHANGED <<dBoxes, dOrder, notDag>>

\* lines 93-106: one iteration of the while loop
KahnStep ==
    /\ dPc = "kahn"
    /\ queue # <<>>
    /\ LET st == KahnIteration(dBoxes, adj,
                    [in_degree |-> in_degree, queue |-> queue, topo_order |-> topo_order])
       IN  /\ in_degree' = st.in_degree
           /\ queue' = st.queue
           /\ topo_order' = st.topo_order
    /\ UNCHANGED <<dPc, dBoxes, same_row, adj, dOrder, notDag>>

\* line 116: return topo_order, adj
DagReturnTopo ==
    /\ dPc = "kahn"
    /\ queue = <<>>
    /\ Len(topo_order) = Len(dBoxes)
    /\ dOrder' = ReturnedOrder(dBoxes, topo_order)
    /\ dPc' = "done"
    /\ UNCHANGED <<dBoxes, same_row, adj, in_degree, queue, topo_order, notDag>>

\* lines 109-114: the topological sort is incomplete, return the spatial sort
DagFallback ==
    /\ dPc = "kahn"
    /\ queue = <<>>
    /\ Len(topo_order) # Len(dBoxes)
    /\ dOrder' = ReturnedOrder(dBoxes, topo_order)
    /\ dPc' = "done"
    /\ UNCHANGED <<dBoxes, same_row, adj, in_degree, queue, topo_order, notDag>>

DagNext == DagTrivial \/ DagBuild \/ KahnStep \/ DagReturnTopo \/ DagFallback

DagSpec == DagInit /\ [][DagNext]_vars

\* the function runs to completion once called
DagFairSpec == DagSpec /\ WF_vars(DagNext)

\* the same function on the wide inputs
DagWideBoxes == DagBoxes \cup {Scaled(b) : b \in ValidBoxes(DagWideMaxX, DagWideMaxY)}

DagWideInit ==
    /\ dPc = "call"
    /\ dBoxes \in ListsUpTo(DagWideBoxes, DagMaxBoxes)
    /\ DagIdle
    /\ MergeOff
    /\ GutterOff
    /\ MainOff

DagWideSpec == DagWideInit /\ [][DagNext]_vars

----------------------------------------------------------------------------
(* detect_gutters_and_refine_boxes, step by step *)

\* boxes in half pixels with x1 < x2 and y1 <= y2 (a box of no height is
\* the input on which the aspect ratio cannot be computed)
GutterBoxes ==
    {b \in (0..GutMaxX) \X (0..GutMaxY) \X (0..GutMaxX) \X (0..GutMaxY) :
        b[1] < b[3] /\ b[2] <= b[4]}

\* what a line detection may return for one axis, as the pair of
\* coordinates the code reads from each segment: straight lines at a
\* pixel in 0..m, a line one pixel off straight, and a slanted line
Segments(m) == {<<a, a>> : a \in 0..m} \cup {<<0, 1>>, <<0, 15>>}

Detections(m) == {S \in SUBSET Segments(m) : Cardinality(S) <= GutMaxLines}

GutterInit ==
    /\ gPc = "call"
    /\ gBoxes \in ListsUpTo(GutterBoxes, GutMaxBoxes)
    /\ GutterIdle
    /\ MergeOff
    /\ DagOff
    /\ MainOff

\* lines 128-129: len(boxes) <= 1
GutterTrivial ==
    /\ gPc = "call"
    /\ Len(gBoxes) <= 1
    /\ gOut' = gBoxes
    /\ gRet' = 129
    /\ gPc' = "done"
    /\ UNCHANGED <<gBoxes, gShape, vertical_gutters, horizontal_gutters, notGutter>>

\* lines 131-182: threshold, the two line detections, clustering
GutterDetect ==
    /\ gPc = "call"
    /\ Len(gBoxes) > 1
    /\ \E vertical_lines \in Detections(GutLineMaxX),
          horizontal_lines \in Detections(GutLineMaxY) :
            /\ gShape' = <<ImgHeight, ImgWidth>>
            /\ vertical_gutters' = ClusterGutters(vertical_lines)
            /\ horizontal_gutters' = ClusterGutters(horizontal_lines)
    /\ gPc' = "refine"
    /\ UNCHANGED <<gBoxes, gOut, gRet, notGutter>>

\* lines 131-156 raise (the image has no 2-D shape, OpenCV fails):
\* lines 231-234 return the argument
GutterDetectRaises ==
    /\ gPc = "call"
    /\ Len(gBoxes) > 1
    /\ gOut' = gBoxes
    /\ gRet' = 234
    /\ gPc' = "done"
    /\ UNCHANGED <<gBoxes, gShape, vertical_gutters, horizontal_gutters, notGutter>>

\* lines 185-229, and lines 231-234 when a box raises
GutterRefine ==
    /\ gPc = "refine"
    /\ gOut' = RefineAll(gBoxes, vertical_gutters, horizontal_gutters, gShape[1], gShape[2])
    /\ gRet' = IF RefineRaises(gBoxes) THEN 234 ELSE 229
    /\ gPc' = "done"
    /\ UNCHANGED <<gBoxes, gShape, vertical_gutters, horizontal_gutters, notGutter>>

GutterNext == GutterTrivial \/ GutterDetect \/ GutterDetectRaises \/ GutterRefine

GutterSpec == GutterInit /\ [][GutterNext]_vars

----------------------------------------------------------------------------
(* main, stage by stage.  pc names the stage about to run; exitStatus is   *)
(* "running", "0" (main returned) or "1" (sys.exit(1)).                    *)

\* what the detector may return: boxes with x1 <= x2 and y1 < y2
RawBoxes ==
    {b \in (0..MainMaxX) \X (0..MainMaxY) \X (0..MainMaxX) \X (0..MainMaxY) :
        b[1] <= b[3] /\ b[2] < b[4]}

\* the "reading_order" list built at lines 488-493 (and 396-399)
ReadingOrder(boxes) ==
    [k \in 1..Len(boxes) |->
        [index |-> k,
         bbox |-> <<Trunc(boxes[k][1]), Trunc(boxes[k][2]), Trunc(boxes[k][3]), Trunc(boxes[k][4])>>]]

Written(order) == [written |-> TRUE, reading_order |-> order]

\* x1, y1, x2, y2 = [int(c) for c in box], kept in half pixels
IntBox(box) ==
    <<Half(Trunc(box[1])), Half(Trunc(box[2])), Half(Trunc(box[3])), Half(Trunc(box[4]))>>

\* the bounding rectangles cv2.boundingRect may report for the ink of a
\* crop: whole-pixel rectangles of positive width and height inside it
InkRects(b) ==
    {r \in (b[1]..b[3]) \X (b[2]..b[4]) \X (b[1]..b[3]) \X (b[2]..b[4]) :
        /\ r[1] < r[3] /\ r[2] < r[4]
        /\ \A c \in 1..4 : r[c] % 2 = 0}

\* what lines 462-468 may do for a box: no ink is found in the crop and the
\* int box is appended, or ink is found and its rectangle is appended
ShrinkOutcomes(box) ==
    {[ink |-> FALSE, box |-> IntBox(box)]}
        \cup {[ink |-> TRUE, box |-> r] : r \in InkRects(IntBox(box))}

\* what lines 464-468 may append for a box
ShrinkChoices(box) == {o.box : o \in ShrinkOutcomes(box)}

\* the outcomes of the shrink-wrap loop, box by box
ShrinkResults(boxes) ==
    {os \in [1..Len(boxes) -> UNION {ShrinkOutcomes(boxes[k]) : k \in 1..Len(boxes)}] :
        \A k \in 1..Len(boxes) : os[k] \in ShrinkOutcomes(boxes[k])}

MainInit ==
    /\ pc = "check_path"
    /\ alarm = "armed"
    /\ MainIdle
    /\ MergeOff
    /\ DagOff
    /\ GutterOff

\* sys.exit(1), from a handler of lines 510-521 or directly
Fail ==
    /\ pc' = "exited"
    /\ exitStatus' = "1"

\* lines 356-359: the input path is checked
MainCheckPath ==
    /\ pc = "check_path"
    /\ \E exists \in BOOLEAN :
        IF exists
        THEN pc' = "inference" /\ UNCHANGED exitStatus
        ELSE Fail
    /\ UNCHANGED <<alarm, raw_boxes, cleaned_boxes, panel_order, ordered_boxes,
                   final_output_boxes, ink_found, img, refined_boxes, file, raisedIn, notMain>>

\* lines 361-382: the model is loaded and run; it returns the raw boxes or
\* raises (line 517)
MainInference ==
    /\ pc = "inference"
    /\ \/ \E boxes \in ListsUpTo(RawBoxes, MainMaxBoxes) :
            /\ raw_boxes' = boxes
            /\ pc' = IF Len(boxes) = 0 THEN "no_boxes" ELSE "merge"
            /\ UNCHANGED <<exitStatus, raisedIn>>
       \/ /\ Fail
          /\ raisedIn' = "inference"
          /\ UNCHANGED raw_boxes
    /\ UNCHANGED <<alarm, cleaned_boxes, panel_order, ordered_boxes,
                   final_output_boxes, ink_found, img, refined_boxes, file, notMain>>

FullImagePanelNoMargin(width, height) ==
    <<[index |-> 1, bbox |-> <<0, 0, width, height>>]>>

\* lines 393-399: the single panel covering the image, 5 pixels in
FullImagePanel(width, height) ==
    <<[index |-> 1, bbox |-> <<5, 5, width - 5, height - 5>>]>>

\* lines 384-421: no box was detected.  cv2.imread returns the image
\* ("read"), returns None ("none") or raises ("raised").  With the image
\* the single panel is written (line 401), with None the empty list (line
\* 410); main returns.  When imread or one of these writes raises, line
\* 414 catches it and line 418 writes the empty list; when that write
\* raises too, the exception reaches line 517.
MainNoBoxes ==
    /\ pc = "no_boxes"
    /\ \E r \in {"read", "none", "raised"}, write1 \in BOOLEAN, write2 \in BOOLEAN :
        /\ img' = r
        /\ IF r = "read" /\ write1
           THEN /\ file' = Written(FullImagePanel(ImgWidth, ImgHeight))
                /\ exitStatus' = "0" /\ raisedIn' = raisedIn
           ELSE IF r = "none" /\ write1
           THEN /\ file' = Written(<<>>)
                /\ exitStatus' = "0" /\ raisedIn' = raisedIn
           ELSE IF write2
           THEN /\ file' = Written(<<>>)
                /\ exitStatus' = "0"
                /\ raisedIn' = IF r = "raised" THEN "imread" ELSE "write"
           ELSE /\ file' = file
                /\ exitStatus' = "1"
                /\ raisedIn' = "rewrite"
    /\ pc' = "exited"
    /\ UNCHANGED <<alarm, raw_boxes, cleaned_boxes, panel_order, ordered_boxes,
                   final_output_boxes, ink_found, refined_boxes, notMain>>

\* lines 425-428: merging; what it raises reaches line 517
MainMerge ==
    /\ pc = "merge"
    /\ IF MergeRaises(raw_boxes)
       THEN /\ Fail
            /\ raisedIn' = "merge"
            /\ UNCHANGED cleaned_boxes
       ELSE /\ cleaned_boxes' = merge_overlapping_boxes(raw_boxes)
            /\ pc' = "order"
            /\ UNCHANGED <<exitStatus, raisedIn>>
    /\ UNCHANGED <<alarm, raw_boxes, panel_order, ordered_boxes,
                   final_output_boxes, ink_found, img, refined_boxes, file, notMain>>

\* lines 431-436: ordering
MainOrder ==
    /\ pc = "order"
    /\ panel_order' = build_panel_dag(cleaned_boxes).order
    /\ ordered_boxes' = Permute(cleaned_boxes, build_panel_dag(cleaned_boxes).order)
    /\ pc' = "shrink"
    /\ UNCHANGED <<alarm, raw_boxes, cleaned_boxes, final_output_boxes, ink_found, img,
                   refined_boxes, file, exitStatus, raisedIn, notMain>>

\* lines 439-471: the image is read again and every box is shrunk to its
\* ink; what OpenCV raises (the image cannot be read, a crop is rejected)
\* reaches line 517
MainShrinkWrap ==
    /\ pc = "shrink"
    /\ \/ \E os \in ShrinkResults(ordered_boxes) :
            /\ final_output_boxes' = [k \in 1..Len(os) |-> os[k].box]
            /\ ink_found' = [k \in 1..Len(os) |-> os[k].ink]
            /\ pc' = "gutter"
            /\ UNCHANGED <<exitStatus, raisedIn>>
       \/ /\ Fail
          /\ raisedIn' = "shrink"
          /\ UNCHANGED <<final_output_boxes, ink_found>>
    /\ UNCHANGED <<alarm, raw_boxes, cleaned_boxes, panel_order, ordered_boxes,
                   img, refined_boxes, file, notMain>>

\* lines 474-484: gutter refinement; the function returns its argument
\* when its detection raises
MainGutters ==
    /\ pc = "gutter"
    /\ \/ \E vertical_lines \in Detections(GutLineMaxX),
             horizontal_lines \in Detections(GutLineMaxY) :
            /\ refined_boxes' =
                 IF Len(final_output_boxes) <= 1 THEN final_output_boxes
                 ELSE RefineAll(final_output_boxes,
                                ClusterGutters(vertical_lines),
                                ClusterGutters(horizontal_lines),
                                ImgHeight, ImgWidth)
            /\ raisedIn' = IF Len(final_output_boxes) > 1 /\ RefineRaises(final_output_boxes)
                           THEN "gutter" ELSE raisedIn
       \/ /\ Len(final_output_boxes) > 1
          /\ refined_boxes' = final_output_boxes
          /\ raisedIn' = "gutter"
    /\ pc' = "save"
    /\ UNCHANGED <<alarm, raw_boxes, cleaned_boxes, panel_order, ordered_boxes,
                   final_output_boxes, ink_found, img, file, exitStatus, notMain>>

\* lines 487-501: the result is written, or sys.exit(1) when writing raises
MainSave ==
    /\ pc = "save"
    /\ \E ok \in BOOLEAN :
        IF ok
        THEN /\ file' = Written(ReadingOrder(refined_boxes))
             /\ pc' = "cancel"
             /\ UNCHANGED exitStatus
        ELSE /\ Fail
             /\ UNCHANGED file
    /\ UNCHANGED <<alarm, raw_boxes, cleaned_boxes, panel_order, ordered_boxes,
                   final_output_boxes, ink_found, img, refined_boxes, raisedIn, notMain>>

\* lines 503-508: signal.alarm(0); main returns
MainCancelAlarm ==
    /\ pc = "cancel"
    /\ alarm' = IF alarm = "armed" THEN "cancelled" ELSE alarm
    /\ pc' = "exited"
    /\ exitStatus' = "0"
    /\ UNCHANGED <<raw_boxes, cleaned_boxes, panel_order, ordered_boxes,
                   final_output_boxes, ink_found, img, refined_boxes, file, raisedIn, notMain>>

\* SIGALRM arrives while the stage at pc runs: timeout_handler raises
\* TimeoutError there.  Inside build_panel_dag (line 118) and inside
\* detect_gutters_and_refine_boxes (lines 231, 480) `except Exception`
\* catches it and the stage returns its fallback; everywhere else it
\* reaches line 510.
MainTimeout ==
    /\ alarm = "armed"
    /\ pc \in {"check_path", "inference", "no_boxes", "merge", "order",
               "shrink", "gutter", "save", "cancel"}
    /\ alarm' = "fired"
    /\ \/ /\ Fail
          /\ UNCHANGED <<panel_order, ordered_boxes, refined_boxes, file>>
       \/ /\ pc = "order" /\ Len(cleaned_boxes) > 1
          /\ panel_order' = Indices(Len(cleaned_boxes))
          /\ ordered_boxes' = cleaned_boxes
          /\ pc' = "shrink"
          /\ UNCHANGED <<refined_boxes, file, exitStatus>>
       \/ /\ pc = "gutter" /\ Len(final_output_boxes) > 1
          /\ refined_boxes' = final_output_boxes
          /\ pc' = "save"
          /\ UNCHANGED <<panel_order, ordered_boxes, file, exitStatus>>
       \/ /\ pc = "no_boxes"
          /\ \E ok \in BOOLEAN :
              IF ok THEN file' = Written(<<>>) /\ exitStatus' = "0"
                    ELSE file' = file /\ exitStatus' = "1"
          /\ pc' = "exited"
          /\ UNCHANGED <<panel_order, ordered_boxes, refined_boxes>>
    /\ \E r \in {"unread", "read", "none"} :
          img' = IF pc = "no_boxes" THEN r ELSE img
    /\ UNCHANGED <<raw_boxes, cleaned_boxes, final_output_boxes, ink_found, raisedIn, notMain>>

MainNext ==
    \/ MainCheckPath \/ MainInference \/ MainNoBoxes \/ MainMerge \/ MainOrder
    \/ MainShrinkWrap \/ MainGutters \/ MainSave \/ MainCancelAlarm \/ MainTimeout

MainSpec == MainInit /\ [][MainNext]_vars

----------------------------------------------------------------------------
(* Properties of merge_overlapping_boxes *)

\* unit cells of the plane covered by a box, by a list of boxes
Cells(b) == {c \in (b[1]..(b[3] - 1)) \X (b[2]..(b[4] - 1)) : TRUE}
Covered(boxes) == UNION {Cells(boxes[k]) : k \in 1..Len(boxes)}
UnionArea(boxes) == Cardinality(Covered(boxes))

\* area of the intersection of two boxes
InterArea(a, b) ==
    Max(0, Min(a[3], b[3]) - Max(a[1], b[1])) * Max(0, Min(a[4], b[4]) - Max(a[2], b[2]))

\* a lies entirely inside b
Inside(a, b) == b[1] <= a[1] /\ b[2] <= a[2] /\ a[3] <= b[3] /\ a[4] <= b[4]

\* C1: merging is idempotent: merge_overlapping_boxes applied to its own
\* output returns that output, same boxes in the same positions.
C1_Idempotent == mPc = "remerged" => mOut2 = mOut

C1_Witness == mPc = "remerged" /\ Len(mIn) = 3 /\ Len(mOut) = 2 /\ mOut2 = mOut

\* C2 (as claimed): the set of merged boxes is the same for every
\* rearrangement of the input list.
C2_OrderImmaterial == mPc = "permuted" => Range(mOutP) = Range(mOut)

\* C2 (amended): for a list of at most two boxes the set of merged boxes
\* is the same whichever box comes first.
C2_OrderImmaterialPair ==
    (mPc = "permuted" /\ Len(mIn) <= 2) => Range(mOutP) = Range(mOut)

\* two boxes given in the other order merge into the same single box
C2_Witness ==
    /\ mPc = "permuted" /\ Len(mIn) = 2 /\ mPerm # mIn
    /\ Len(mOut) = 1 /\ mOutP = mOut

\* C3 (as claimed): the area covered by the output equals the area covered
\* by the input, for every input of at least one box.
C3_UnionAreaEqual ==
    (mPc = "merged" /\ Len(mIn) >= 1) => UnionArea(mOut) = UnionArea(mIn)

\* C3 (amended): the output covers every cell the input covers, so its
\* covered area is at least the input's.
C3_UnionAreaCovers ==
    (mPc = "merged" /\ Len(mIn) >= 1) =>
        /\ Covered(mIn) \subseteq Covered(mOut)
        /\ UnionArea(mOut) >= UnionArea(mIn)

C3_Witness ==
    mPc = "merged" /\ Len(mOut) < Len(mIn) /\ UnionArea(mOut) > UnionArea(mIn)

\* C4: two boxes whose intersection is at least 90% of the area of either
\* one merge into a single box; when one lies inside the other that box is
\* the outer one.
C4_ContainmentPair ==
    (mPc = "merged" /\ Len(mIn) = 2
        /\ (\/ 10 * InterArea(mIn[1], mIn[2]) >= 9 * Area(mIn[1])
            \/ 10 * InterArea(mIn[1], mIn[2]) >= 9 * Area(mIn[2]))) =>
        /\ Len(mOut) = 1
        /\ Inside(mIn[1], mIn[2]) => mOut[1] = mIn[2]
        /\ Inside(mIn[2], mIn[1]) => mOut[1] = mIn[1]

\* a 90% pair in which neither box contains the other, merged
C4_Witness ==
    /\ mPc = "merged" /\ Len(mIn) = 2 /\ Len(mOut) = 1
    /\ 10 * InterArea(mIn[1], mIn[2]) >= 9 * Area(mIn[2])
    /\ 10 * InterArea(mIn[1], mIn[2]) < 9 * Area(mIn[1])
    /\ ~Inside(mIn[2], mIn[1])

----------------------------------------------------------------------------
(* Properties of build_panel_dag *)

IsPermutation(order, n) ==
    /\ Len(order) = n
    /\ \A k \in 1..n : \E p \in 1..n : order[p] = k

\* position of index i in a returned order
Pos(order, i) == CHOOSE p \in 1..Len(order) : order[p] = i

\* Kahn's algorithm was run and left some index out (the edges have a cycle)
TookFallback == dPc = "done" /\ Len(dBoxes) > 1 /\ Len(topo_order) # Len(dBoxes)

\* C5: build_panel_dag terminates and the order it returns holds every
\* index exactly once, also when the edges contain a cycle.
C5_TerminatesWithPermutation ==
    /\ <>(dPc = "done")
    /\ [](dPc = "done" => IsPermutation(dOrder, Len(dBoxes)))

C5_Witness == TookFallback /\ Len(dBoxes) = 3 /\ IsPermutation(dOrder, 3)

\* C6 (as claimed): in the returned order a box strictly above another
\* comes before it, for every input.
C6_AboveFirst ==
    dPc = "done" =>
        \A i, j \in 1..Len(dBoxes) :
            dBoxes[i][4] < dBoxes[j][2] => Pos(dOrder, i) < Pos(dOrder, j)

\* C6 (amended): the same, when the topological sort is complete.
C6_AboveFirstAcyclic ==
    (dPc = "done" /\ ~TookFallback) =>
        \A i, j \in 1..Len(dBoxes) :
            dBoxes[i][4] < dBoxes[j][2] => Pos(dOrder, i) < Pos(dOrder, j)

\* a box strictly above an earlier-listed one, ordered first
C6_Witness ==
    /\ dPc = "done" /\ ~TookFallback /\ Len(dBoxes) = 3
    /\ dBoxes[3][4] < dBoxes[1][2]
    /\ Pos(dOrder, 3) < Pos(dOrder, 1)

\* same-row as the claim states it: vertical overlap above 0.3 of the
\* shorter height; the doubled horizontal centre of a box
Overlap30(a, b) ==
    10 * (Min(a[4], b[4]) - Max(a[2], b[2])) > 3 * Min(a[4] - a[2], b[4] - b[2])
Centre2(a) == a[1] + a[3]

\* C7 (as claimed): in the returned order, of two same-row boxes the one
\* with the greater horizontal centre comes first, for every input.
C7_RightFirst ==
    dPc = "done" =>
        \A i, j \in 1..Len(dBoxes) :
            (i # j /\ Overlap30(dBoxes[i], dBoxes[j])
                /\ Centre2(dBoxes[i]) > Centre2(dBoxes[j])) =>
                Pos(dOrder, i) < Pos(dOrder, j)

\* C7 (amended): the same, when the topological sort is complete.
C7_RightFirstAcyclic ==
    (dPc = "done" /\ ~TookFallback) =>
        \A i, j \in 1..Len(dBoxes) :
            (i # j /\ Overlap30(dBoxes[i], dBoxes[j])
                /\ Centre2(dBoxes[i]) > Centre2(dBoxes[j])) =>
                Pos(dOrder, i) < Pos(dOrder, j)

\* a same-row box further right than an earlier-listed one, ordered first
C7_Witness ==
    /\ dPc = "done" /\ ~TookFallback /\ Len(dBoxes) = 3
    /\ Overlap30(dBoxes[3], dBoxes[1]) /\ Centre2(dBoxes[3]) > Centre2(dBoxes[1])
    /\ Pos(dOrder, 3) < Pos(dOrder, 1)

----------------------------------------------------------------------------
(* Properties of main *)

\* C8 (as claimed): an exception raised inside the merging, ordering,
\* shrink-wrap or gutter stage is caught at that stage: the run goes on
\* with the stage's input as the stage's output and does not exit.
C8_StageFailureContained ==
    [][(raisedIn' # raisedIn /\ raisedIn' \in {"merge", "order", "shrink", "gutter"}) =>
            /\ exitStatus' = "running"
            /\ raisedIn' = "merge" => cleaned_boxes' = raw_boxes
            /\ raisedIn' = "order" => ordered_boxes' = cleaned_boxes
            /\ raisedIn' = "shrink" => final_output_boxes' = ordered_boxes
            /\ raisedIn' = "gutter" => refined_boxes' = final_output_boxes]_vars

----------------------------------------------------------------------------
(* Properties of detect_gutters_and_refine_boxes *)

SetMin(S) == CHOOSE x \in S : \A y \in S : x <= y
SetMax(S) == CHOOSE x \in S : \A y \in S : x >= y

\* gutters right of (below) the coordinate e within the window, left of (above) it
NearAfter(gutters, e, window) ==
    {g \in Range(gutters) : Half(g) > e /\ Half(g) - e < Half(window)}
NearBefore(gutters, e, window) ==
    {g \in Range(gutters) : Half(g) < e /\ e - Half(g) < Half(window)}

\* C9 (as claimed): for a box with width / height <= 2.0, a gutter right of
\* x2 within the window moves the right edge to the nearest such gutter
\* minus 1, and a gutter left of x1 within the window moves the left edge
\* to the nearest such gutter plus 1.
C9_SnapsToGutter ==
    (gPc = "done" /\ gRet = 229) =>
        \A k \in 1..Len(gBoxes) :
            LET b == gBoxes[k]
                right == NearAfter(vertical_gutters, b[3], gShape[2] \div 15)
                left == NearBefore(vertical_gutters, b[1], gShape[2] \div 15)
            IN  (b[3] - b[1]) <= 2 * (b[4] - b[2]) =>
                    /\ right # {} => gOut[k][3] = Half(SetMin(right) - 1)
                    /\ left # {} => gOut[k][1] = Half(SetMax(left) + 1)

\* C10: with no vertical and no horizontal gutter the returned list is the
\* input, box for box; a list of 0 or 1 boxes is returned as it is before
\* any detection is run.
C10_NoGuttersNoChange ==
    gPc = "done" =>
        /\ (vertical_gutters = <<>> /\ horizontal_gutters = <<>>) => gOut = gBoxes
        /\ Len(gBoxes) <= 1 => (gOut = gBoxes /\ gRet = 129 /\ gShape = <<0, 0>>)

\* two boxes of positive height went through the refinement loop of an
\* image without gutters
C10_Witness ==
    /\ gPc = "done" /\ gRet = 229 /\ Len(gBoxes) = 2
    /\ vertical_gutters = <<>> /\ horizontal_gutters = <<>>
    /\ gOut = gBoxes
    /\ gBoxes[1][1] % 2 = 1

\* C11: a box with width / height > 2.0 is returned with the x1 it came
\* with, whatever vertical gutters were detected.
C11_HorizontalKeepsLeft ==
    gPc = "done" =>
        \A k \in 1..Len(gBoxes) :
            LET b == gBoxes[k]
            IN  (b[4] - b[2] > 0 /\ b[3] - b[1] > 2 * (b[4] - b[2])) =>
                    gOut[k][1] = b[1]

\* a wide box went through the refinement loop with a gutter left of its
\* x1, within the window and less than a pixel away, and kept its x1
C11_Witness ==
    /\ gPc = "done" /\ gRet = 229
    /\ \E k \in 1..Len(gBoxes) :
          LET b == gBoxes[k]
          IN  /\ b[3] - b[1] > 2 * (b[4] - b[2])
              /\ \E g \in NearBefore(vertical_gutters, b[1], gShape[2] \div 15) :
                    Half(g + 1) > b[1]
              /\ gOut[k][1] = b[1]

----------------------------------------------------------------------------
(* Properties of the stages of main *)

\* the shrink-wrap loop has run over every ordered box
ShrinkDone == pc \in {"gutter", "save", "cancel"} /\ Len(ink_found) = Len(ordered_boxes)

\* C12 (as claimed): a box whose crop shows no ink is emitted by the
\* shrink-wrap step with its coordinates unchanged, and every emitted box,
\* with or without ink, has positive width and positive height.
C12_ShrinkKeepsBox ==
    ShrinkDone =>
        \A k \in 1..Len(ordered_boxes) :
            /\ ~ink_found[k] => final_output_boxes[k] = ordered_boxes[k]
            /\ final_output_boxes[k][1] < final_output_boxes[k][3]
            /\ final_output_boxes[k][2] < final_output_boxes[k][4]

\* the run went through the zero-detection branch of main
NoBoxesRan == pc = "exited" /\ img # "unread"

\* C13: with zero raw boxes and a readable image the run writes a
\* reading_order of exactly one entry, index 1 and bbox [5, 5, w - 5, h - 5];
\* with an image that cannot be read, or whose reading raises, it writes the
\* empty list and returns without a failure exit; in neither case does a
\* merge, ordering, shrink-wrap or gutter stage run.  (The writes of
\* reading_order.json succeed and the alarm does not fire in the branch.)
C13_NoDetections ==
    NoBoxesRan =>
        /\ raw_boxes = <<>>
        /\ cleaned_boxes = <<>> /\ panel_order = <<>> /\ ordered_boxes = <<>>
        /\ final_output_boxes = <<>> /\ refined_boxes = <<>>
        /\ (img = "read" /\ raisedIn = "none" /\ alarm # "fired") =>
                /\ file.written
                /\ Len(file.reading_order) = 1
                /\ file.reading_order[1].index = 1
                /\ file.reading_order[1].bbox = <<5, 5, ImgWidth - 5, ImgHeight - 5>>
                /\ exitStatus = "0"
        /\ (img \in {"none", "raised"} /\ raisedIn \notin {"write", "rewrite"}
                /\ alarm # "fired") =>
                /\ file.written
                /\ file.reading_order = <<>>
                /\ exitStatus = "0"

\* the image was read and the single panel written
C13_Witness ==
    /\ NoBoxesRan /\ img = "read" /\ raisedIn = "none" /\ alarm # "fired"
    /\ file.written /\ Len(file.reading_order) = 1 /\ exitStatus = "0"

\* reading_order.json was written at line 496
Saved == pc \in {"cancel", "exited"} /\ raw_boxes # <<>> /\ file.written

\* C14: a run with at least one raw detection that reaches the save step
\* writes one entry per merged box; entry k carries index k and comes from
\* the merged box that build_panel_dag placed at position k: its bbox lies
\* inside that box, truncated to whole pixels.
C14_OneEntryPerBox ==
    Saved =>
        LET n == Len(cleaned_boxes)
            ro == file.reading_order
        IN  /\ Len(ro) = n
            /\ Len(panel_order) = n
            /\ \A i \in 1..n : \E k \in 1..n : panel_order[k] = i
            /\ \A k \in 1..n :
                  LET src == cleaned_boxes[panel_order[k]]
                  IN  /\ ro[k].index = k
                      /\ Trunc(src[1]) <= ro[k].bbox[1]
                      /\ Trunc(src[2]) <= ro[k].bbox[2]
                      /\ ro[k].bbox[3] <= Trunc(src[3])
                      /\ ro[k].bbox[4] <= Trunc(src[4])

\* two boxes were reordered by build_panel_dag, and the shrink-wrap made
\* the first entry smaller than its box
C14_Witness ==
    /\ Saved /\ Len(cleaned_boxes) = 2 /\ panel_order = <<2, 1>>
    /\ Len(file.reading_order) = 2
    /\ file.reading_order[1].bbox[3] < Trunc(cleaned_boxes[2][3])
    /\ file.reading_order[1].bbox[1] >= Trunc(cleaned_boxes[1][3])

----------------------------------------------------------------------------
(* Properties of the passes of merge_overlapping_boxes *)

\* C15: merge_overlapping_boxes returns on every list of n >= 1 valid
\* boxes; every merge step shortens the list by exactly one box, at most
\* n - 1 merges occur, and the output holds between 1 and n boxes.
C15_MergeTerminates ==
    /\ <>(mPc = "returned")
    /\ [][mBoxes' # mBoxes /\ mPc = "scan" =>
            /\ Len(mBoxes') = Len(mBoxes) - 1
            /\ mMerges' = mMerges + 1]_vars
    /\ []((mPc = "returned" /\ Len(mIn) >= 1) =>
            /\ 1 <= Len(mOut) /\ Len(mOut) <= Len(mIn)
            /\ mMerges <= Len(mIn) - 1
            /\ Len(mOut) = Len(mIn) - mMerges)

\* three boxes were merged into one in two passes
C15_Witness == mPc = "returned" /\ Len(mIn) = 3 /\ mMerges = 2 /\ Len(mOut) = 1

\* the passes return what the function as a whole returns
StepsAgree == mPc = "returned" => mOut = merge_overlapping_boxes(mIn)

\* the two merge conditions as the rule states them, on areas and overlaps
NinetyPercent(a, b) ==
    \/ 10 * InterArea(a, b) >= 9 * Area(a)
    \/ 10 * InterArea(a, b) >= 9 * Area(b)
RowOverlap(a, b) ==
    LET yo == Min(a[4], b[4]) - Max(a[2], b[2])
        xo == Max(0, Min(a[3], b[3]) - Max(a[1], b[1]))
    IN  /\ 2 * yo > Min(a[4] - a[2], b[4] - b[2])
        /\ 10 * (xo * yo) > 3 * Min(Area(a), Area(b))

\* C16: the returned list is a fixpoint of the merge rule: no two of its
\* boxes intersect in 90% of the area of one of them, and no two are
\* same-row (vertical overlap above half the shorter height) with an
\* overlap above 0.3 of the smaller area.
C16_Fixpoint ==
    mPc = "returned" =>
        \A i, j \in 1..Len(mOut) :
            i < j => ~NinetyPercent(mOut[i], mOut[j]) /\ ~RowOverlap(mOut[i], mOut[j])

\* after a merge two boxes are left that intersect, yet not enough to merge
C16_Witness ==
    /\ mPc = "returned" /\ mMerges >= 1 /\ Len(mOut) = 2
    /\ InterArea(mOut[1], mOut[2]) > 0

----------------------------------------------------------------------------
(* Properties of the graph and of the sort of build_panel_dag *)

\* the edges of an adjacency, as pairs
Edges(a) == {e \in (1..Len(a)) \X (1..Len(a)) : \E k \in 1..Len(a[e[1]]) : a[e[1]][k] = e[2]}

\* some arrangement of the nodes in a line has every edge pointing forward
Acyclic(a) ==
    \E f \in Permutations(1..Len(a)) : \A e \in Edges(a) : f[e[1]] < f[e[2]]

\* C17: when the edges built by build_panel_dag are acyclic, the returned
\* order is a topological order of the returned adjacency: for every edge
\* i -> j, index i comes before index j.
C17_TopologicalOrder ==
    (dPc = "done" /\ Len(dBoxes) > 1 /\ Acyclic(adj)) =>
        \A e \in Edges(adj) : Pos(dOrder, e[1]) < Pos(dOrder, e[2])

\* three boxes with an edge from a later-listed box to an earlier one
C17_Witness ==
    /\ dPc = "done" /\ Len(dBoxes) = 3 /\ Acyclic(adj)
    /\ <<3, 1>> \in Edges(adj) /\ <<1, 2>> \in Edges(adj)
    /\ Pos(dOrder, 3) < Pos(dOrder, 1) /\ Pos(dOrder, 1) < Pos(dOrder, 2)

\* the edge i -> j as the rule states it
RuleEdge(boxes, i, j) ==
    /\ i # j
    /\ \/ ~Overlap30(boxes[i], boxes[j]) /\ boxes[i][4] < boxes[j][2]
       \/ Overlap30(boxes[i], boxes[j]) /\ Centre2(boxes[i]) > Centre2(boxes[j])

\* C18: for n >= 2 boxes the adjacency holds the edge i -> j exactly when
\* i and j are not same-row (threshold 0.3) and i.y2 < j.y1, or they are
\* same-row and the centre of i is right of the centre of j; no node has an
\* edge to itself, no edge is listed twice, and before the sort starts
\* in_degree[j] is the number of edges into j.
C18_EdgeRelation ==
    (dPc \in {"kahn", "done"} /\ Len(dBoxes) >= 2) =>
        /\ Len(adj) = Len(dBoxes)
        /\ \A i, j \in 1..Len(dBoxes) :
              (\E k \in 1..Len(adj[i]) : adj[i][k] = j) <=> RuleEdge(dBoxes, i, j)
        /\ \A i \in 1..Len(dBoxes) :
              \A k, l \in 1..Len(adj[i]) : adj[i][k] = adj[i][l] => k = l
        /\ (dPc = "kahn" /\ topo_order = <<>>) =>
              \A j \in 1..Len(dBoxes) :
                  in_degree[j] = Cardinality({e \in Edges(adj) : e[2] = j})

\* three boxes, the sort not yet started: an edge between two boxes whose
\* vertical overlap lies between 0.3 and 0.5 of the shorter height, and a
\* box with two edges into it
C18_Witness ==
    /\ dPc = "kahn" /\ topo_order = <<>> /\ Len(dBoxes) = 3
    /\ \E i, j \in 1..3 :
          /\ <<i, j>> \in Edges(adj)
          /\ Overlap30(dBoxes[i], dBoxes[j])
          /\ 2 * (Min(dBoxes[i][4], dBoxes[j][4]) - Max(dBoxes[i][2], dBoxes[j][2]))
                <= Min(dBoxes[i][4] - dBoxes[i][2], dBoxes[j][4] - dBoxes[j][2])
    /\ \E j \in 1..3 : in_degree[j] = 2

\* indices with no edge left to wait for that are not yet in the order
ReadyNow == {i \in 1..Len(dBoxes) : in_degree[i] = 0 /\ i \notin Range(topo_order)}

\* box i sorts before box u: higher up, or as high and further right
SortsBefore(i, u) ==
    \/ dBoxes[i][2] < dBoxes[u][2]
    \/ dBoxes[i][2] = dBoxes[u][2] /\ dBoxes[i][1] > dBoxes[u][1]

\* C19: at every step of the topological sort the index appended to the
\* order is ready (in-degree zero, not yet output) and no other ready index
\* has a smaller key (y1 ascending, then x1 descending).
C19_SmallestKeyFirst ==
    [][topo_order' # topo_order =>
            /\ topo_order' = Append(topo_order, topo_order'[Len(topo_order')])
            /\ topo_order'[Len(topo_order')] \in ReadyNow
            /\ \A i \in ReadyNow : ~SortsBefore(i, topo_order'[Len(topo_order')])]_vars

\* three boxes all ready at the start; the last-listed one was output first:
\* it is as high as the first-listed one and further right, and higher than
\* the second
C19_Witness ==
    /\ dPc = "kahn" /\ Len(dBoxes) = 3 /\ topo_order = <<3>>
    /\ \A i \in 1..3 : BuildInDegree(dBoxes)[i] = 0
    /\ dBoxes[3][2] = dBoxes[1][2] /\ dBoxes[3][1] > dBoxes[1][1]
    /\ dBoxes[3][2] < dBoxes[2][2]

\* the 50-pixel band of a box: floor(y1 / 50)
Band(b) == Trunc(b[2]) \div 50

\* index i goes before index j in the spatial sort: lower band, or the same
\* band and further right, or the same band and x1 and listed earlier
SpatialBefore(i, j) ==
    \/ Band(dBoxes[i]) < Band(dBoxes[j])
    \/ /\ Band(dBoxes[i]) = Band(dBoxes[j])
       /\ \/ dBoxes[i][1] > dBoxes[j][1]
          \/ dBoxes[i][1] = dBoxes[j][1] /\ i < j

C21_NoTwoCycle ==
    (dPc \in {"kahn", "done"} /\ Len(dBoxes) >= 2) =>
        /\ \A i, j \in 1..Len(dBoxes) :
              ~(<<i, j>> \in Edges(adj) /\ <<j, i>> \in Edges(adj))
        /\ (dPc = "done" /\ Len(dBoxes) = 2) =>
              Len(topo_order) = 2 /\ dOrder = topo_order

\* three boxes took the fallback on the cycle 1 -> 2 -> 3 -> 1
C21_Witness ==
    /\ TookFallback /\ Len(dBoxes) = 3
    /\ <<1, 2>> \in Edges(adj) /\ <<2, 3>> \in Edges(adj) /\ <<3, 1>> \in Edges(adj)
    /\ <<2, 1>> \notin Edges(adj)

----------------------------------------------------------------------------
(* Further properties of detect_gutters_and_refine_boxes *)

\* every coordinate of the box is a whole number of pixels
WholePixels(b) == \A c \in 1..4 : b[c] % 2 = 0

C23_FailureReturnsInput ==
    (gPc = "done" /\ gRet = 234) => gOut = gBoxes

\* the detection had run; the first box had a gutter that moves its edge,
\* the second box has no height: the list came back as given
C23_Witness ==
    /\ gPc = "done" /\ gRet = 234 /\ Len(gBoxes) = 2
    /\ gShape # <<0, 0>>
    /\ gBoxes[1][4] > gBoxes[1][2]
    /\ RefineBox(gBoxes[1], vertical_gutters, horizontal_gutters, gShape[1], gShape[2])
          # gBoxes[1]
    /\ gBoxes[2][4] = gBoxes[2][2]
    /\ gOut = gBoxes

----------------------------------------------------------------------------
(* Further properties of merge_overlapping_boxes *)

\* positions of the input boxes lying inside the output box o
GroupOf(o) == {k \in 1..Len(mIn) : Inside(mIn[k], o)}

\* component-wise bounding union of the input boxes at the positions G
BoundingUnion(G) ==
    <<SetMin({mIn[k][1] : k \in G}), SetMin({mIn[k][2] : k \in G}),
      SetMax({mIn[k][3] : k \in G}), SetMax({mIn[k][4] : k \in G})>>

\* every output box is the bounding union of the input boxes inside it
OutputsAreUnions ==
    \A p \in 1..Len(mOut) :
        GroupOf(mOut[p]) # {} /\ mOut[p] = BoundingUnion(GroupOf(mOut[p]))

\* C24 (as claimed): every input box lies inside exactly one output box,
\* and every output box is the bounding union of the non-empty group of
\* input boxes inside it.
C24_ExactlyOneContainer ==
    mPc = "merged" =>
        /\ \A k \in 1..Len(mIn) :
              Cardinality({p \in 1..Len(mOut) : Inside(mIn[k], mOut[p])}) = 1
        /\ OutputsAreUnions

\* C24 (amended): every input box lies inside at least one output box, and
\* every output box is the bounding union of the non-empty group of input
\* boxes inside it.
C24_SomeContainer ==
    mPc = "merged" =>
        /\ \A k \in 1..Len(mIn) : \E p \in 1..Len(mOut) : Inside(mIn[k], mOut[p])
        /\ OutputsAreUnions

\* three boxes merged into two, one of them larger than every input box
C24_Witness ==
    /\ mPc = "merged" /\ Len(mIn) = 3 /\ Len(mOut) = 2
    /\ \E p \in 1..2 : \A k \in 1..3 : mOut[p] # mIn[k]
    /\ OutputsAreUnions

----------------------------------------------------------------------------
(* The same-row relation of build_panel_dag *)

\* j in same_row[i]
InSameRow(i, j) == \E k \in 1..Len(same_row[i]) : same_row[i][k] = j

\* C25: same_row is decided pair by pair: j is in same_row[i] exactly when
\* the vertical overlap of i and j is above 0.3 of the shorter height; the
\* relation is symmetric; it is not closed transitively: when A and B are
\* same-row and B and C are, A and C need not be, and then an edge between
\* A and C, if any, is an above/below edge.
C25_SameRowPairwise ==
    (dPc \in {"kahn", "done"} /\ Len(dBoxes) >= 2) =>
        /\ Len(same_row) = Len(dBoxes)
        /\ \A i, j \in 1..Len(dBoxes) :
              /\ InSameRow(i, j) <=> (i # j /\ Overlap30(dBoxes[i], dBoxes[j]))
              /\ InSameRow(i, j) <=> InSameRow(j, i)
        /\ \A a, b, c \in 1..Len(dBoxes) :
              (InSameRow(a, b) /\ InSameRow(b, c) /\ a # c /\ ~InSameRow(a, c)) =>
                  /\ <<a, c>> \in Edges(adj) => dBoxes[a][4] < dBoxes[c][2]
                  /\ <<c, a>> \in Edges(adj) => dBoxes[c][4] < dBoxes[a][2]

\* boxes 1 and 2 are same-row, 2 and 3 are, 1 and 3 are not: 1 lies above 3
\* and has the edge to it
C25_Witness ==
    /\ dPc = "kahn" /\ Len(dBoxes) = 3
    /\ InSameRow(1, 2) /\ InSameRow(2, 3) /\ ~InSameRow(1, 3)
    /\ <<1, 3>> \in Edges(adj) /\ <<3, 1>> \notin Edges(adj)

\* the same with boxes 1 and 3 touching: no edge between them
SameRowChainNoEdge ==
    /\ dPc = "kahn" /\ Len(dBoxes) = 3
    /\ InSameRow(1, 2) /\ InSameRow(2, 3) /\ ~InSameRow(1, 3)
    /\ <<1, 3>> \notin Edges(adj) /\ <<3, 1>> \notin Edges(adj)

----------------------------------------------------------------------------
(* The alarm of main *)

\* C26 (as claimed): the alarm cannot fail a run whose result is saved: a
\* run that has written reading_order.json does not end with exit status 1
\* after the alarm fired, i.e. a run that exits through the TimeoutError
\* handler has not written its result file.
C26_SavedRunNotTimedOut ==
    (pc = "exited" /\ file.written) => ~(alarm = "fired" /\ exitStatus = "1")

====
